---- MODULE Spec2Model ----
\* Log retrieval of the docker legacy service (core package) and the docker
\* client construction (libdocker/client.go), as a state machine: one call
\* of one operation per behaviour, with the engine's log stream delivered
\* write by write while the Logs call is blocked.
EXTENDS Integers, Sequences, FiniteSets, TLC

\* ---------------------------------------------------------------- bounds
MaxWrites == 3        \* writes the engine performs during one Logs call
MaxChunk == 2         \* longest payload of one engine write
MaxLimit == 2         \* largest LimitBytes a caller passes
MaxContainerTerminationMessageLogLength == 3   \* ring buffer size (scaled)
MaxContainerTerminationMessageLogLines == 2    \* tail line count (scaled)

\* ------------------------------------------------- pointers, errors, time
\* A Go pointer is <<>> (nil) or <<v>>.
NilPtr == <<>>
Ptr(v) == <<v>>
Deref(p) == p[1]

\* A Go error is its Unwrap chain, outermost first; the nil error is <<>>.
NoError == <<>>
errMaximumWrite == "maximum write"
errClosedPipe == "io: read/write on closed pipe"

errorsIs(err, target) == \E i \in 1..Len(err) : err[i] = target

\* a time is whole seconds since the epoch plus a sub-second part
Time(sec, nsec) == [sec |-> sec, nsec |-> nsec]
Unix(t) == t.sec
AddSeconds(t, d) == [sec |-> t.sec + d, nsec |-> t.nsec]

\* strconv.FormatInt(i, 10) as a sequence of characters
DigitChars == <<"0", "1", "2", "3", "4", "5", "6", "7", "8", "9">>

RECURSIVE FormatNat(_)
FormatNat(n) ==
    IF n < 10 THEN <<DigitChars[n + 1]>>
    ELSE FormatNat(n \div 10) \o <<DigitChars[(n % 10) + 1]>>

FormatInt(i) == IF i < 0 THEN <<"-">> \o FormatNat(0 - i) ELSE FormatNat(i)

\* ------------------------------------------------------------ input sets
SinceSecondsValues == {NilPtr, Ptr(3)}
SinceTimeValues == {NilPtr, Ptr(Time(5, 0)), Ptr(Time(9, 1)), Ptr(Time(-2, 1))}
TailLinesValues == {NilPtr, Ptr(12)}
LimitBytesValues == {NilPtr} \cup {Ptr(n) : n \in 0..MaxLimit}
NowValues == {Time(10, 1)}
InspectErrors == {NoError, <<"no such container">>}
EngineErrors == {<<"engine error">>, <<"request failed", "connection reset">>}
LoggingDrivers == {"json-file", "journald", "syslog", "none", ""}
InfoErrors == {NoError, <<"cannot connect">>}
Endpoints == {"", "unix:///var/run/docker.sock"}
ClientErrors == {NoError, <<"invalid host">>}
DaemonVersions ==
    {<<0, 99, 9>>, <<1, 24, 0>>, <<1, 41, 0>>, <<1, 41, 9>>, <<1, 42, 0>>,
     <<1, 42, 1>>, <<1, 43, 0>>, <<2, 0, 0>>}

PodLogOptions ==
    [SinceSeconds : SinceSecondsValues, SinceTime : SinceTimeValues,
     TailLines : TailLinesValues, LimitBytes : LimitBytesValues,
     Timestamps : BOOLEAN, Follow : BOOLEAN]

NoOptions ==
    [SinceSeconds |-> NilPtr, SinceTime |-> NilPtr, TailLines |-> NilPtr,
     LimitBytes |-> NilPtr, Timestamps |-> FALSE, Follow |-> FALSE]

\* ---------------------------------------------------------------- writers
\* An io.Writer is the sink it finally writes to plus, when it is wrapped by
\* sharedLimitWriter, a pointer to (the name of) the counter it draws from.
Sinks == {"stdout", "stderr", "buf"}
CounterNames == {"max", "max2"}
NoCounters == [c \in CounterNames |-> 0]
Writer(sink) == [delegate |-> sink, limit |-> NilPtr]

VARIABLES
    pc,          \* "idle", "logs" (blocked in client.Logs), "done"
    op,          \* the operation called
    logOptions,  \* the PodLogOptions of the GetContainerLogs call
    inspect,     \* <<>> or <<error returned by client.InspectContainer>>
    opts,        \* <<>> or <<ContainerLogsOptions passed to client.Logs>>
    sopts,       \* StreamOptions passed to client.Logs
    max,         \* the byte counters the wrapped writers point to, by name
    written,     \* content of the caller's stdout, stderr and of the ring buffer
    emitted,     \* every byte the engine handed to a sink, in write order
    nwrites,     \* engine writes so far
    dropped,     \* a write met the exhausted budget
    running,     \* the container's process is alive
    cancelled,   \* the caller cancelled the context it passed
    logsErr,     \* <<>> or <<error returned by client.Logs>>
    result,      \* <<>> or <<error returned by GetContainerLogs>>
    tailRet,     \* <<>> or <<[s, err] returned by GetContainerLogTail>>
    info,        \* engine info seen by IsCRISupportedLogDriver
    driverRet,   \* <<>> or <<[ok, err]>>
    daemon,      \* daemon seen by ConnectToDockerOrDie
    connectRet   \* "none", "exit" (os.Exit(1)), "client"

vars ==
    <<pc, op, logOptions, inspect, opts, sopts, max, written, emitted,
      nwrites, dropped, running, cancelled, logsErr, result, tailRet, info,
      driverRet, daemon, connectRet>>

Init ==
    /\ pc = "idle"
    /\ op = "none"
    /\ logOptions = NoOptions
    /\ inspect = <<>>
    /\ opts = <<>>
    /\ sopts = <<>>
    /\ max = NoCounters
    /\ written = [stdout |-> <<>>, stderr |-> <<>>, buf |-> <<>>]
    /\ emitted = <<>>
    /\ nwrites = 0
    /\ dropped = FALSE
    /\ running \in BOOLEAN
    /\ cancelled = FALSE
    /\ logsErr = <<>>
    /\ result = <<>>
    /\ tailRet = <<>>
    /\ info = [err |-> NoError, LoggingDriver |-> ""]
    /\ driverRet = <<>>
    /\ daemon = [endpoint |-> "", clientErr |-> NoError, version |-> <<0, 0, 0>>]
    /\ connectRet = "none"

\* ------------------------------------------------------- pure helpers
Min(a, b) == IF a < b THEN a ELSE b
Take(s, n) == SubSeq(s, 1, Min(n, Len(s)))
LastBytes(s, n) == IF Len(s) <= n THEN s ELSE SubSeq(s, Len(s) - n + 1, Len(s))

\* the k bytes of the engine's next write on `stream`; every byte the engine
\* ever writes is distinct, so order and origin can be told apart
StreamTag(stream) == IF stream = "stdout" THEN 100 ELSE 200
Payload(stream, k, sofar) == [i \in 1..k |-> StreamTag(stream) + sofar + i]

\* ------------------------------------------------- GetContainerLogs, parts
\* mutant: the inspect error is not looked at
InspectFailedIgnored(err) == FALSE

\* the container inspect failed: GetContainerLogs returns at once
InspectFailed(err) == err # NoError

\* mutant: the later (more restrictive) of the two cutoffs wins
SinceOfRestrictive(lo, now) ==
    LET rel == IF lo.SinceSeconds # NilPtr
               THEN Unix(AddSeconds(now, 0 - Deref(lo.SinceSeconds)))
               ELSE 0
        abs == IF lo.SinceTime # NilPtr THEN Unix(Deref(lo.SinceTime)) ELSE rel
    IN  IF abs < rel THEN rel ELSE abs

\* the cutoff: the relative offset first, then the absolute time over it
SinceOf(lo, now) ==
    LET rel == IF lo.SinceSeconds # NilPtr
               THEN Unix(AddSeconds(now, 0 - Deref(lo.SinceSeconds)))
               ELSE 0
    IN  IF lo.SinceTime # NilPtr THEN Unix(Deref(lo.SinceTime)) ELSE rel

ContainerLogsOptions(lo, now) ==
    [ShowStdout |-> TRUE, ShowStderr |-> TRUE,
     Since |-> FormatInt(SinceOf(lo, now)),
     Timestamps |-> lo.Timestamps, Follow |-> lo.Follow,
     Tail |-> IF lo.TailLines # NilPtr THEN FormatInt(Deref(lo.TailLines))
              ELSE <<>>]

\* mutant: each writer is wrapped over a counter of its own
LimitWritersSeparate(lo, stdout, stderr) ==
    IF lo.LimitBytes # NilPtr
    THEN [stdout |-> [stdout EXCEPT !.limit = Ptr("max2")],
          stderr |-> [stderr EXCEPT !.limit = Ptr("max")],
          counters |-> [c \in CounterNames |-> Deref(lo.LimitBytes)]]
    ELSE [stdout |-> stdout, stderr |-> stderr, counters |-> NoCounters]

\* the two writers handed to the engine call and the counters behind them:
\* with a byte limit both are wrapped over the one local variable max
LimitWriters(lo, stdout, stderr) ==
    IF lo.LimitBytes # NilPtr
    THEN [stdout |-> [stdout EXCEPT !.limit = Ptr("max")],
          stderr |-> [stderr EXCEPT !.limit = Ptr("max")],
          counters |-> [NoCounters EXCEPT !["max"] = Deref(lo.LimitBytes)]]
    ELSE [stdout |-> stdout, stderr |-> stderr, counters |-> NoCounters]

StreamOptions(stdout, stderr, tty) ==
    [OutputStream |-> stdout, ErrorStream |-> stderr, RawTerminal |-> tty]

\* mutant: the maximum-write error is returned like any other
ConvertErrorNever(err) == err

\* mutant: every error of the engine call is turned into success
ConvertErrorAlways(err) == NoError

\* the error GetContainerLogs returns for the error of client.Logs
ConvertError(err) == IF errorsIs(err, errMaximumWrite) THEN NoError ELSE err

\* ------------------------------------------------ GetContainerLogTail, parts
\* mutant: the tail is also given a byte limit of the buffer's size
TailLogOptionsLimited ==
    [NoOptions EXCEPT
        !.TailLines = Ptr(MaxContainerTerminationMessageLogLines),
        !.LimitBytes = Ptr(MaxContainerTerminationMessageLogLength)]

TailLogOptions ==
    [NoOptions EXCEPT !.TailLines = Ptr(MaxContainerTerminationMessageLogLines)]

\* circbuf.Buffer.Write: keeps the last size bytes, accepts every byte
CircbufWrite(content, p, size) == LastBytes(content \o p, size)

\* mutant: on failure the partial buffer is returned with the error
TailReturnPartial(err, buf) == [s |-> buf, err |-> err]

TailReturn(err, buf) ==
    IF err # NoError THEN [s |-> <<>>, err |-> err]
    ELSE [s |-> buf, err |-> NoError]

\* --------------------------------------------------------- writing a chunk
\* what the sink behind a writer does with p: [n, err, content]
DelegateWrite(sink, content, p, fail) ==
    IF sink = "buf"
    THEN [n |-> Len(p), err |-> NoError,
          content |-> CircbufWrite(content, p,
                                   MaxContainerTerminationMessageLogLength)]
    ELSE IF fail /\ Len(p) > 0
    THEN [n |-> 0, err |-> <<errClosedPipe>>, content |-> content]
    ELSE [n |-> Len(p), err |-> NoError, content |-> content \o p]

\* sharedLimitWriter(w, &limit).Write(p): [n, err, content, limit, dropped]
sharedLimitWriterWrite(sink, content, limit, p, fail) ==
    IF Len(p) = 0
    THEN LET r == DelegateWrite(sink, content, p, fail)
         IN  [n |-> r.n, err |-> r.err, content |-> r.content,
              limit |-> limit, dropped |-> FALSE]
    ELSE IF limit <= 0
    THEN [n |-> 0, err |-> <<errMaximumWrite>>, content |-> content,
          limit |-> limit, dropped |-> TRUE]
    ELSE LET r == DelegateWrite(sink, content, Take(p, limit), fail)
         IN  [n |-> r.n, err |-> r.err, content |-> r.content,
              limit |-> limit - r.n, dropped |-> FALSE]

\* Writer.Write(p) for a writer of this model
WriterWrite(w, p, fail) ==
    IF w.limit = NilPtr
    THEN LET r == DelegateWrite(w.delegate, written[w.delegate], p, fail)
         IN  [n |-> r.n, err |-> r.err, content |-> r.content,
              counters |-> max, dropped |-> FALSE]
    ELSE LET c == Deref(w.limit)
             r == sharedLimitWriterWrite(w.delegate, written[w.delegate],
                                         max[c], p, fail)
         IN  [n |-> r.n, err |-> r.err, content |-> r.content,
              counters |-> [max EXCEPT ![c] = r.limit], dropped |-> r.dropped]

\* the writer the engine call demultiplexes a frame of `stream` to: with a
\* TTY the response is one raw stream copied to OutputStream
TargetWriter(so, stream) ==
    IF so.RawTerminal \/ stream = "stdout" THEN so.OutputStream
    ELSE so.ErrorStream

\* ----------------------------------------------------------------- actions
\* GetContainerLogs returns err; GetContainerLogTail, when it is the caller,
\* returns in turn (buf is the ring buffer's content at that point)
Return(err, buf) ==
    /\ result' = <<err>>
    /\ tailRet' = IF op' = "GetContainerLogTail"
                  THEN <<TailReturn(err, buf)>> ELSE tailRet
    /\ pc' = "done"

\* client.Logs returned err: the rest of GetContainerLogs
LogsReturn(err, buf) ==
    /\ logsErr' = <<err>>
    /\ Return(ConvertError(err), buf)

\* GetContainerLogs up to the point where it blocks in client.Logs
Begin(lo, stdout, stderr, inspectErr, tty, now) ==
    /\ logOptions' = lo
    /\ inspect' = <<inspectErr>>
    /\ IF InspectFailed(inspectErr)
       THEN /\ Return(inspectErr, written.buf)
            /\ UNCHANGED <<opts, sopts, max, logsErr>>
       ELSE LET lw == LimitWriters(lo, stdout, stderr)
            IN  /\ opts' = <<ContainerLogsOptions(lo, now)>>
                /\ max' = lw.counters
                /\ sopts' = <<StreamOptions(lw.stdout, lw.stderr, tty)>>
                /\ pc' = "logs"
                /\ UNCHANGED <<logsErr, result, tailRet>>
    /\ UNCHANGED <<written, emitted, nwrites, dropped, running, cancelled,
                   info, driverRet, daemon, connectRet>>

GetContainerLogs ==
    /\ pc = "idle"
    /\ op' = "GetContainerLogs"
    /\ \E lo \in PodLogOptions, inspectErr \in InspectErrors,
          tty \in BOOLEAN, now \in NowValues :
          Begin(lo, Writer("stdout"), Writer("stderr"), inspectErr, tty, now)

GetContainerLogTail ==
    /\ pc = "idle"
    /\ op' = "GetContainerLogTail"
    /\ \E inspectErr \in InspectErrors, tty \in BOOLEAN, now \in NowValues :
          Begin(TailLogOptions, Writer("buf"), Writer("buf"), inspectErr, tty,
                now)

\* the engine call writes one frame of k bytes of `stream` to its writer; an
\* error of the writer ends the call
EngineWrite ==
    /\ pc = "logs"
    /\ nwrites < MaxWrites
    /\ \E stream \in {"stdout", "stderr"}, k \in 0..MaxChunk, fail \in BOOLEAN :
          LET p == Payload(stream, k, Len(emitted))
              w == TargetWriter(sopts[1], stream)
              r == WriterWrite(w, p, fail)
              written2 == [written EXCEPT ![w.delegate] = r.content]
          IN  /\ fail => (k > 0 /\ w.delegate # "buf"
                          /\ (w.limit # NilPtr => max[Deref(w.limit)] > 0))
              /\ written' = written2
              /\ emitted' = emitted \o p
              /\ max' = r.counters
              /\ dropped' = (dropped \/ r.dropped)
              /\ nwrites' = nwrites + 1
              /\ op' = op
              /\ IF r.err # NoError
                 THEN LogsReturn(r.err, written2.buf)
                 ELSE UNCHANGED <<pc, logsErr, result, tailRet>>
    /\ UNCHANGED <<logOptions, inspect, opts, sopts, running, cancelled, info,
                   driverRet, daemon, connectRet>>

\* the engine call fails on its own (request or transport error)
EngineError ==
    /\ pc = "logs"
    /\ op' = op
    /\ \E e \in EngineErrors : LogsReturn(e, written.buf)
    /\ UNCHANGED <<logOptions, inspect, opts, sopts, max, written, emitted, nwrites,
                   dropped, running, cancelled, info, driverRet, daemon,
                   connectRet>>

\* the engine's response ends: at once without follow, with follow only when
\* the container's process has exited
EngineEOF ==
    /\ pc = "logs"
    /\ ~opts[1].Follow \/ ~running
    /\ op' = op
    /\ LogsReturn(NoError, written.buf)
    /\ UNCHANGED <<logOptions, inspect, opts, sopts, max, written, emitted, nwrites,
                   dropped, running, cancelled, info, driverRet, daemon,
                   connectRet>>

ContainerExit ==
    /\ pc = "logs"
    /\ running
    /\ running' = FALSE
    /\ UNCHANGED <<pc, op, logOptions, inspect, opts, sopts, max, written, emitted,
                   nwrites, dropped, cancelled, logsErr, result, tailRet,
                   info, driverRet, daemon, connectRet>>

\* the caller of GetContainerLogs cancels the context it passed: the
\* parameter is discarded (_ context.Context), nothing else changes
CallerCancel ==
    /\ pc = "logs"
    /\ op = "GetContainerLogs"
    /\ ~cancelled
    /\ cancelled' = TRUE
    /\ UNCHANGED <<pc, op, logOptions, inspect, opts, sopts, max, written, emitted,
                   nwrites, dropped, running, logsErr, result, tailRet,
                   info, driverRet, daemon, connectRet>>

\* ---------------------------------------------------- IsCRISupportedLogDriver
criSupportedLogDrivers == <<"json-file">>

\* mutant: every named driver counts as supported
IsCRISupportedLogDriverAny(i) ==
    IF i.err # NoError
    THEN [ok |-> FALSE, err |-> <<"failed to get docker info">>]
    ELSE [ok |-> i.LoggingDriver # "", err |-> NoError]

IsCRISupportedLogDriverResult(i) ==
    IF i.err # NoError
    THEN [ok |-> FALSE, err |-> <<"failed to get docker info">>]
    ELSE IF \E k \in 1..Len(criSupportedLogDrivers) :
                i.LoggingDriver = criSupportedLogDrivers[k]
    THEN [ok |-> TRUE, err |-> NoError]
    ELSE [ok |-> FALSE, err |-> NoError]

IsCRISupportedLogDriver ==
    /\ pc = "idle"
    /\ op' = "IsCRISupportedLogDriver"
    /\ \E e \in InfoErrors, d \in LoggingDrivers :
          /\ info' = [err |-> e, LoggingDriver |-> d]
          /\ driverRet' = <<IsCRISupportedLogDriverResult(info')>>
    /\ pc' = "done"
    /\ UNCHANGED <<logOptions, inspect, opts, sopts, max, written, emitted, nwrites,
                   dropped, running, cancelled, logsErr, result, tailRet,
                   daemon, connectRet>>

\* ------------------------------------------------------ ConnectToDockerOrDie
\* an API version is <<major, minor, patch>>
\* mutant: the minimum of an earlier release
OldMinimumDockerAPIVersion == <<1, 24, 0>>

MinimumDockerAPIVersion == <<1, 42, 0>>

VersionLess(a, b) ==
    \/ a[1] < b[1]
    \/ a[1] = b[1] /\ a[2] < b[2]
    \/ a[1] = b[1] /\ a[2] = b[2] /\ a[3] < b[3]

\* getDockerClient: the client options depend on the endpoint; building the
\* client may fail
getDockerClient(endpoint, clientErr) ==
    [client |-> IF endpoint # "" THEN "WithHost" ELSE "FromEnv",
     err |-> clientErr]

\* newKubeDockerClient: the API version is negotiated with the daemon and
\* the minimum supported version is enforced; an older daemon is rejected
newKubeDockerClient(client, version) ==
    IF VersionLess(version, MinimumDockerAPIVersion) THEN "exit" ELSE "client"

ConnectToDockerOrDieResult(endpoint, clientErr, version) ==
    LET r == getDockerClient(endpoint, clientErr)
    IN  IF r.err # NoError THEN "exit"
        ELSE newKubeDockerClient(r.client, version)

ConnectToDockerOrDie ==
    /\ pc = "idle"
    /\ op' = "ConnectToDockerOrDie"
    /\ \E e \in Endpoints, ce \in ClientErrors, v \in DaemonVersions :
          /\ daemon' = [endpoint |-> e, clientErr |-> ce, version |-> v]
          /\ connectRet' = ConnectToDockerOrDieResult(e, ce, v)
    /\ pc' = "done"
    /\ UNCHANGED <<logOptions, inspect, opts, sopts, max, written, emitted, nwrites,
                   dropped, running, cancelled, logsErr, result, tailRet,
                   info, driverRet>>

\* ------------------------------------------------------------ specification
Next ==
    \/ GetContainerLogs
    \/ GetContainerLogTail
    \/ EngineWrite
    \/ EngineError
    \/ EngineEOF
    \/ ContainerExit
    \/ CallerCancel
    \/ IsCRISupportedLogDriver
    \/ ConnectToDockerOrDie

Spec == Init /\ [][Next]_vars

\* the engine's response ends when it can: the one step the runtime
\* guarantees; the container and the caller are free to do nothing
LiveSpec == Spec /\ WF_vars(EngineEOF)

\* ================================================================== claims
RECURSIVE ParseNat(_)
ParseNat(cs) ==
    IF Len(cs) = 0 THEN 0
    ELSE 10 * ParseNat(SubSeq(cs, 1, Len(cs) - 1))
         + (CHOOSE d \in 0..9 : DigitChars[d + 1] = cs[Len(cs)])

ParseInt(cs) ==
    IF Len(cs) > 0 /\ cs[1] = "-" THEN 0 - ParseNat(Tail(cs)) ELSE ParseNat(cs)

Delivered == Len(written.stdout) + Len(written.stderr)
IsLogsCall == op = "GetContainerLogs"
IsTailCall == op = "GetContainerLogTail"

\* C1: with LimitBytes = N, the bytes delivered to the caller's stdout and
\* stderr writers together never exceed N, whatever the engine writes and in
\* whatever order.
C1_SharedBudget ==
    (IsLogsCall /\ logOptions.LimitBytes # NilPtr)
        => Delivered <= Deref(logOptions.LimitBytes)

C1_Witness ==
    /\ IsLogsCall /\ pc = "done" /\ logOptions.LimitBytes # NilPtr
    /\ sopts # <<>> /\ ~sopts[1].RawTerminal
    /\ Len(written.stdout) > 0 /\ Len(written.stderr) > 0
    /\ Delivered = Deref(logOptions.LimitBytes)
    /\ dropped

\* C2: when a write meets the exhausted budget, the engine log call ends
\* with the maximum-write error and GetContainerLogs returns no error.
C2_ExhaustedIsSuccess ==
    (IsLogsCall /\ pc = "done" /\ dropped)
        => (logsErr = <<(<<errMaximumWrite>>)>> /\ result = <<NoError>>)

C2_Witness ==
    /\ IsLogsCall /\ pc = "done" /\ dropped
    /\ Deref(logOptions.LimitBytes) > 0 /\ Delivered > 0
    /\ result = <<NoError>>

\* C3: with SinceSeconds and SinceTime both set, the Since option passed to
\* the engine is the decimal text of SinceTime's Unix seconds.
C3_AbsoluteSinceWins ==
    (IsLogsCall /\ opts # <<>> /\ logOptions.SinceSeconds # NilPtr
     /\ logOptions.SinceTime # NilPtr)
        => ParseInt(opts[1].Since) = Deref(logOptions.SinceTime).sec

C3_Witness ==
    /\ IsLogsCall /\ opts # <<>>
    /\ logOptions.SinceSeconds # NilPtr /\ logOptions.SinceTime # NilPtr
    /\ \E now \in NowValues :
          now.sec - Deref(logOptions.SinceSeconds)
              > Deref(logOptions.SinceTime).sec
    /\ ParseInt(opts[1].Since) = Deref(logOptions.SinceTime).sec

TailFailed == IsTailCall /\ pc = "done" /\ result[1] # NoError

\* C4 as stated: a failure of the log retrieval inside GetContainerLogTail
\* yields empty output and no error for the caller.
C4_FailureNotPropagated ==
    TailFailed => (tailRet[1].s = <<>> /\ tailRet[1].err = NoError)

\* C4 as amended: a failure of the log retrieval inside GetContainerLogTail
\* yields empty output and the retrieval's error, returned to the caller.
C4_FailureReturnedWithEmptyOutput ==
    TailFailed => (tailRet[1].s = <<>> /\ tailRet[1].err = result[1])

C4_Witness ==
    /\ TailFailed /\ Len(written.buf) > 0
    /\ inspect = <<NoError>>
    /\ tailRet[1].s = <<>> /\ tailRet[1].err = logsErr[1]

\* C5: once the caller of a following GetContainerLogs call has cancelled
\* its context, the call eventually returns.
C5_CancelTerminates ==
    (pc = "logs" /\ cancelled /\ opts[1].Follow) ~> (pc = "done")

\* C6: IsCRISupportedLogDriver reports true exactly for the driver
\* "json-file", false without error for any other driver, and false with an
\* error when the info query fails.
C6_SupportedDriver ==
    (op = "IsCRISupportedLogDriver" /\ pc = "done") =>
        /\ driverRet[1].ok
              <=> (info.err = NoError /\ info.LoggingDriver = "json-file")
        /\ (info.err = NoError) <=> (driverRet[1].err = NoError)

C6_Witness ==
    /\ op = "IsCRISupportedLogDriver" /\ pc = "done"
    /\ info.err = NoError /\ info.LoggingDriver = "journald"
    /\ driverRet[1] = [ok |-> FALSE, err |-> NoError]

ClaimedMinimum == <<1, 42, 0>>

C8_TailIsBoundedSuffix ==
    (IsTailCall /\ opts # <<>>) =>
        /\ ParseInt(opts[1].Tail) = MaxContainerTerminationMessageLogLines
        /\ opts[1].Since = <<"0">>
        /\ ~opts[1].Follow
        /\ sopts[1].OutputStream = Writer("buf")
        /\ sopts[1].ErrorStream = Writer("buf")
        /\ (pc = "done" /\ tailRet[1].err = NoError) =>
              /\ Len(tailRet[1].s) <= MaxContainerTerminationMessageLogLength
              /\ tailRet[1].s
                    = LastBytes(emitted, MaxContainerTerminationMessageLogLength)

C8_Witness ==
    /\ IsTailCall /\ pc = "done" /\ tailRet[1].err = NoError
    /\ sopts # <<>> /\ ~sopts[1].RawTerminal
    /\ Len(emitted) > MaxContainerTerminationMessageLogLength
    /\ Len(tailRet[1].s) = MaxContainerTerminationMessageLogLength
    /\ \E i, j \in 1..Len(tailRet[1].s) :
          tailRet[1].s[i] < 200 /\ tailRet[1].s[j] > 200

\* C9: when the container inspect fails, GetContainerLogs returns that
\* error, never issues the engine log call and writes nothing.
C9_InspectFailureStopsCall ==
    (IsLogsCall /\ inspect # <<>> /\ inspect[1] # NoError) =>
        /\ pc = "done" /\ result = inspect
        /\ opts = <<>> /\ sopts = <<>> /\ logsErr = <<>>
        /\ nwrites = 0 /\ emitted = <<>>
        /\ written.stdout = <<>> /\ written.stderr = <<>>

C9_Witness ==
    /\ IsLogsCall /\ inspect # <<>> /\ inspect[1] # NoError
    /\ logOptions.LimitBytes # NilPtr /\ logOptions.Follow
    /\ logOptions.SinceTime # NilPtr
    /\ result = inspect /\ opts = <<>>

\* C10: an error of the engine log call that is not the maximum-write error
\* is returned by GetContainerLogs unchanged, with or without a byte limit
\* and with or without bytes already written.
C10_OtherErrorsUnchanged ==
    (IsLogsCall /\ pc = "done" /\ logsErr # <<>>
     /\ ~errorsIs(logsErr[1], errMaximumWrite))
        => result = logsErr

C10_Witness ==
    /\ IsLogsCall /\ pc = "done" /\ logsErr # <<>>
    /\ logsErr[1] \in EngineErrors
    /\ logOptions.LimitBytes # NilPtr /\ Delivered > 0
    /\ result = logsErr

====
